---- MODULE Spec2Model ----
(***************************************************************************)
(* Retrieval and chat-streaming model of ai-study-companion.               *)
(*                                                                         *)
(* Part 1 (specification Spec): the embeddings table, the similarity       *)
(* searches of lib/db/embeddings/queries.ts and the search tool            *)
(* getInformationFromEmbeddings.  Every await of the tool is one step, so  *)
(* inserts and deletes of other requests interleave with a running search. *)
(*                                                                         *)
(* Part 2 (specification ChatSpec): POST /api/chat of                      *)
(* app/(chat)/api/chat/route.ts, one process per request.                  *)
(*                                                                         *)
(* Part 3 (specifications DeleteSpec, FolderDeleteSpec): DELETE            *)
(* /api/resources and deleteEmbeddingsByFolder, with inserts and searches  *)
(* between their awaits.                                                   *)
(*                                                                         *)
(* Part 4 (specification AgentSpec): one turn of the ToolLoopAgent built   *)
(* by createAgent or createRagAgent.                                       *)
(*                                                                         *)
(* SearchSpec checks the search functions on every small table.            *)
(*                                                                         *)
(* Part 5: the functions around them, each under a specification of its    *)
(* own: generateEmbedding (EmbedSpec), getResourcesPaginated and the       *)
(* getAllResources tool (ListSpec), the pipeline's chunker (ChunkSpec),    *)
(* getStreamContext (StreamContextSpec), DELETE /api/chat                  *)
(* (ChatDeleteSpec), the daily message limit (RateSpec) and                *)
(* condenseMessages (CondenseSpec).                                        *)
(*                                                                         *)
(* Similarities, distances and thresholds are in hundredths (0.5 = 50).    *)
(* Texts are sequences of characters so that trim() is computed.           *)
(***************************************************************************)
EXTENDS Integers, Sequences, FiniteSets, TLC

\* ------------------------------------------------------------------------
\* Bounds
\* ------------------------------------------------------------------------
\* rows of the live table while the tool runs
MaxRows == 2
\* lines of an answer of the auxiliary model
MaxLines == 2
\* rows of a table searched directly, and the limit of such a search
MaxTable == 3
MaxLimit == 2

\* ------------------------------------------------------------------------
\* Program constants (lib/db/embeddings/queries.ts)
\* ------------------------------------------------------------------------
SIMILARITY_THRESHOLD == 50
FALLBACK_THRESHOLDS_ascending == <<15, 30>>
FALLBACK_THRESHOLDS == <<30, 15>>
DEFAULT_LIMIT == 3

\* ------------------------------------------------------------------------
\* Texts
\* ------------------------------------------------------------------------
IsSpace(c) == c = " "

RECURSIVE TrimStart(_)
TrimStart(s) ==
  IF s = <<>> THEN <<>>
  ELSE IF IsSpace(Head(s)) THEN TrimStart(Tail(s)) ELSE s

RECURSIVE TrimEnd(_)
TrimEnd(s) ==
  IF s = <<>> THEN <<>>
  ELSE IF IsSpace(s[Len(s)]) THEN TrimEnd(SubSeq(s, 1, Len(s) - 1)) ELSE s

\* String.prototype.trim
Trim(s) == TrimEnd(TrimStart(s))

\* The texts of the model: the user's query, two reformulations, and the
\* contents of chunks (one of them whitespace only, one empty).
QueryQ == <<"q">>
QueryR == <<"r">>
QueryS == <<"s">>
NoText == <<>>
Blank == <<" ">>

\* ------------------------------------------------------------------------
\* Embedding vectors and cosine distance
\* ------------------------------------------------------------------------
\* The embedding provider maps a text to a vector; the model has one query
\* vector per query text.
QueryVectors == 1 .. 3

EmbedText(t) == IF Trim(t) = QueryQ THEN 1 ELSE IF Trim(t) = QueryR THEN 2 ELSE 3

\* "embedding" vector(1536): the dimensions of the stored vectors, which are
\* those of OpenAI's text-embedding-3-small.
vectorDimensions == 1536

\* nomic-embed-text, used whenever OLLAMA_BASE_URL is set, has 768
\* dimensions; NomicVector is the vector it returns.
nomicDimensions == 768
NomicVector == 4

Dimensions(v) == IF v = NomicVector THEN nomicDimensions ELSE vectorDimensions

\* The embedding generateEmbedding returns for a text.
EmbeddingOf(t, ollama) == IF ollama THEN NomicVector ELSE EmbedText(t)

\* Stored vectors are named 1 .. 4; DistanceTable[e][v] is the pgvector
\* cosine distance (<=>) of stored vector e to query vector v.
StoredVectors == 1 .. 4

DistanceTable ==
  << <<40, 150, 45>>,
     <<50, 60, 85>>,
     <<80, 95, 40>>,
     <<85, 70, 90>> >>

cosineDistance(e, v) == DistanceTable[e][v]

\* sql`1 - (cosineDistance(embeddings.embedding, userQueryEmbedded))`
similarity(row, v) == 100 - cosineDistance(row.embedding, v)

\* ------------------------------------------------------------------------
\* The embeddings table
\* ------------------------------------------------------------------------
NoResource == "none"
ResourceIds == {"r1", "r2"}

\* resources.filename of the joined resources row (null without a resource)
Filename(rid) == IF rid = NoResource THEN "null" ELSE rid

NewEmbeddings ==
  { [resourceId |-> "r1", content |-> <<"a">>, embedding |-> 1],
    [resourceId |-> "r1", content |-> Blank,   embedding |-> 1],
    [resourceId |-> "r2", content |-> <<"b">>, embedding |-> 3],
    [resourceId |-> "r2", content |-> <<"c">>, embedding |-> 2],
    [resourceId |-> NoResource, content |-> NoText, embedding |-> 4] }

VARIABLES
  embeddings,      \* the embeddings table, in insertion order
  pc,              \* position of the running tool call
  stage,           \* "original" or "refined": which query is searched
  input,           \* its input: userQuery, resourceId
  queryEmbedded,   \* the embedding being searched (0: none yet)
  fallbackIndex,   \* i of the fallback loop (0: the initial threshold)
  searchResult,    \* result of the last ...WithFallback call
  validResults,    \* validResults of execute
  refinedQueries,  \* refined queries still to try
  returned,        \* what execute returned to the agent
  outcome,         \* "none", "returned" or "threw": how execute ended
  history,         \* observations of this call (see below)
  lastSearch       \* a direct findRelevantContent call and its result

frame == <<pc, stage, input, queryEmbedded, fallbackIndex, searchResult,
          validResults, refinedQueries, returned, outcome>>

toolVars == <<frame, history>>

VARIABLES
  chats,           \* chats table: chat id -> owning user (NoUser: no row)
  messages,        \* messages table
  streams,         \* streams table
  requests         \* the POST /api/chat requests

chatVars == <<chats, messages, streams, requests>>

VARIABLES
  resources,       \* resources table: resource id -> folder (NoRow: no row)
  files,           \* file storage: the resource ids whose file is stored
  deleteRequest,   \* the DELETE /api/resources request
  folderDelete,    \* the deleteEmbeddingsByFolder call
  folderSearch,    \* a findRelevantContentByFolder call and its result
  turn             \* one agent turn (agent.stream)

resourceVars == <<resources, files, deleteRequest, folderDelete>>

VARIABLES
  embedCall,       \* a generateEmbedding call
  catalog,         \* the resources table as the listing queries see it
  listing,         \* a caller of getResourcesPaginated and what it has got
  chunking,        \* the chunker at work on one text
  globalStreamContext,  \* route.ts: let globalStreamContext
  isInitializing,       \* route.ts: let isInitializing
  streamCalls,     \* the getStreamContext calls
  chatDelete,      \* the DELETE /api/chat request
  condensing       \* a condenseMessages call

listVars == <<catalog, listing>>
streamVars == <<globalStreamContext, isInitializing, streamCalls>>

utilVars == <<embedCall, listVars, chunking, streamVars, chatDelete, condensing>>

others == <<resourceVars, folderSearch, turn, utilVars>>

\* what the retrieval actions leave alone
rest == <<lastSearch, chatVars, others>>

vars == <<embeddings, toolVars, lastSearch, chatVars, others>>

\* ------------------------------------------------------------------------
\* The resources table
\* ------------------------------------------------------------------------
NoRow == "no row"
Folders == {"f1", "f2"}

\* The resources tables searched directly: r1 and r2 in the same folder or
\* in two folders.
ResourceTables ==
  { [rid \in ResourceIds |-> IF rid = "r1" THEN "f1" ELSE folder] : folder \in Folders }

\* "resource_id" REFERENCES "resources"("id"): a row with a resource id needs
\* the resource's row; resource_id may be null.
ForeignKeyHolds(values) ==
  \A k \in DOMAIN values :
    values[k].resourceId # NoResource => resources[values[k].resourceId] # NoRow

\* ------------------------------------------------------------------------
\* Similarity searches (lib/db/embeddings/queries.ts)
\* ------------------------------------------------------------------------
\* The selected columns of one row.
SimilaritySearchResult(row, v) ==
  [content |-> row.content,
   similarity |-> similarity(row, v),
   resourceName |-> Filename(row.resourceId)]

\* .orderBy(desc(similarity)).limit(limit) over the table positions in
\* `matching`.  SQL fixes no order among rows of equal similarity, so the
\* value is the set of the lists the database may return.
OrderByDescLimit(matching, v, limit) ==
  LET n == Cardinality(matching)
      orders == { p \in [1 .. n -> matching] :
                    /\ \A i, j \in 1 .. n : i # j => p[i] # p[j]
                    /\ \A i \in 1 .. n - 1 :
                         similarity(embeddings[p[i]], v)
                           >= similarity(embeddings[p[i + 1]], v) }
      m == IF limit < n THEN limit ELSE n
  IN  { [k \in 1 .. m |-> SimilaritySearchResult(embeddings[p[k]], v)] :
          p \in orders }

findRelevantContent_lt(v, limit, threshold) ==
  OrderByDescLimit({ i \in DOMAIN embeddings :
                       similarity(embeddings[i], v) < threshold }, v, limit)

findRelevantContent_gte(v, limit, threshold) ==
  OrderByDescLimit({ i \in DOMAIN embeddings :
                       similarity(embeddings[i], v) >= threshold }, v, limit)

\* .where(gt(similarity, threshold))
findRelevantContent(v, limit, threshold) ==
  OrderByDescLimit({ i \in DOMAIN embeddings :
                       similarity(embeddings[i], v) > threshold }, v, limit)

\* .where(and(eq(embeddings.resourceId, resourceId), gt(similarity, threshold)))
findRelevantContentByResourceId(v, resourceId, limit, threshold) ==
  OrderByDescLimit({ i \in DOMAIN embeddings :
                       /\ embeddings[i].resourceId = resourceId
                       /\ similarity(embeddings[i], v) > threshold }, v, limit)

\* .where(and(eq(resources.folder, folder), gt(similarity, threshold))) over
\* the left join: a row without a resource has a null folder.
findRelevantContentByFolder(v, folder, limit, threshold) ==
  OrderByDescLimit({ i \in DOMAIN embeddings :
                       /\ embeddings[i].resourceId # NoResource
                       /\ resources[embeddings[i].resourceId] = folder
                       /\ similarity(embeddings[i], v) > threshold }, v, limit)

\* The search a ...WithFallback function runs: the tool calls the
\* resource-scoped function when input.resourceId is set.
ScopedSearch(v, resourceId, limit, threshold) ==
  IF resourceId = NoResource
  THEN findRelevantContent(v, limit, threshold)
  ELSE findRelevantContentByResourceId(v, resourceId, limit, threshold)

ExhaustedFallback_offByOne ==
  [results |-> <<>>,
   threshold |-> FALLBACK_THRESHOLDS[Len(FALLBACK_THRESHOLDS)],
   attempt |-> Len(FALLBACK_THRESHOLDS)]

\* return of the exhausted ladder
ExhaustedFallback ==
  [results |-> <<>>,
   threshold |-> FALLBACK_THRESHOLDS[Len(FALLBACK_THRESHOLDS)],
   attempt |-> Len(FALLBACK_THRESHOLDS) + 1]

\* ------------------------------------------------------------------------
\* Table writes
\* ------------------------------------------------------------------------
NoFallbackResult == [results |-> <<>>, threshold |-> 0, attempt |-> 0]

\* What the model remembers of the running call beyond the code's own
\* variables: the searches of the current ...WithFallback call and what it
\* returned, whether the table changed since that call began, which
\* collaborator failed, and how many reformulated queries were embedded.
NoHistory ==
  [searches |-> <<>>, fallbackReturn |-> NoFallbackResult, storeTouched |-> FALSE,
   dbFailed |-> FALSE, embedFailed |-> FALSE, refineFailed |-> FALSE,
   refineCalled |-> FALSE, refinedEmbedded |-> 0]

Touched == [history EXCEPT !.storeTouched = TRUE]

\* saveEmbeddings(values): one insert of the whole batch; an empty batch
\* returns before the insert, and an insert the foreign key rejects throws
\* and inserts nothing.
saveEmbeddings(values) ==
  /\ Len(embeddings) + Len(values) <= MaxRows
  /\ IF Len(values) = 0 \/ ~ForeignKeyHolds(values)
     THEN UNCHANGED <<embeddings, history>>
     ELSE /\ embeddings' = embeddings \o values
          /\ history' = Touched
  /\ UNCHANGED <<frame, rest>>

\* deleteEmbeddingsByResourceId(resourceId)
deleteEmbeddingsByResourceId(resourceId) ==
  /\ embeddings' = SelectSeq(embeddings, LAMBDA row : row.resourceId # resourceId)
  /\ history' = IF embeddings' # embeddings THEN Touched ELSE history
  /\ UNCHANGED <<frame, rest>>

\* ------------------------------------------------------------------------
\* The search tool (lib/ai/agents/tools/get-information-from-embeddings.ts)
\* ------------------------------------------------------------------------
UserQueries == {NoText, QueryQ}

\* Lines the auxiliary model may answer with: the query itself, a blank
\* line, and two reformulations, one of them padded.
ModelLines == {QueryQ, Blank, <<" ", "r">>, QueryS}

\* An answer of more lines than the prompt asks for ("2-3 alternative
\* phrasings"): the text is the model's, nothing in refineQuery cuts it.
ManyLines == <<QueryR, QueryS, QueryR, QueryS>>

RECURSIVE SeqsUpTo(_, _)
SeqsUpTo(S, n) ==
  IF n = 0 THEN {<<>>}
  ELSE LET shorter == SeqsUpTo(S, n - 1)
       IN  shorter \cup { Append(q, x) : q \in { t \in shorter : Len(t) = n - 1 }, x \in S }

\* text.split("\n").map(q => q.trim()).filter(q => q.length > 0 && q !== originalQuery)
SplitTrimFilter(lines, originalQuery) ==
  LET trimmed == [k \in 1 .. Len(lines) |-> Trim(lines[k])]
  IN  SelectSeq(trimmed, LAMBDA q : Len(q) > 0 /\ q # originalQuery)

FilterValid_unfiltered(results) == results

\* results.filter(r => r.content && r.content.trim().length > 0)
FilterValid(results) ==
  SelectSeq(results, LAMBDA r : Len(r.content) > 0 /\ Len(Trim(r.content)) > 0)

\* validResults.map(result => ({ content, similarity, resourceName, _meta }))
Compact(results, sr) ==
  [k \in 1 .. Len(results) |->
     [content |-> results[k].content,
      similarity |-> results[k].similarity,
      resourceName |-> results[k].resourceName,
      thresholdUsed |-> sr.threshold,
      searchAttempts |-> sr.attempt]]

CatchError_rethrow == [returned |-> <<>>, outcome |-> "threw"]

\* catch (error) { return []; } of execute
CatchError == [returned |-> <<>>, outcome |-> "returned"]

\* A failure inside the try block of execute ends the call in its catch.
Caught(h) ==
  /\ returned' = CatchError.returned
  /\ outcome' = CatchError.outcome
  /\ pc' = "done"
  /\ history' = h
  /\ UNCHANGED <<stage, input, queryEmbedded, fallbackIndex, searchResult,
                 validResults, refinedQueries>>

\* return validResults.map(...) of execute
Return(valid, sr) ==
  /\ returned' = Compact(valid, sr)
  /\ outcome' = "returned"
  /\ pc' = "done"

\* execute is entered; an empty userQuery returns [] at once.
Execute(userQuery, resourceId) ==
  /\ pc = "idle"
  /\ input' = [userQuery |-> userQuery, resourceId |-> resourceId]
  /\ history' = NoHistory
  /\ IF Len(userQuery) = 0
     THEN /\ returned' = <<>>
          /\ outcome' = "returned"
          /\ pc' = "done"
     ELSE /\ pc' = "embed"
          /\ UNCHANGED <<returned, outcome>>
  /\ UNCHANGED <<embeddings, stage, queryEmbedded, fallbackIndex, searchResult,
                 validResults, refinedQueries, rest>>

\* const userQueryEmbedded = await generateEmbedding(input.userQuery), and the
\* entry of the ...WithFallback call that follows it without an await.
GenerateEmbedding(ok, ollama) ==
  /\ pc = "embed"
  /\ IF ok
     THEN /\ queryEmbedded' = EmbeddingOf(input.userQuery, ollama)
          /\ stage' = "original"
          /\ fallbackIndex' = 0
          /\ pc' = "initial"
          /\ history' = [history EXCEPT !.searches = <<>>,
                                        !.fallbackReturn = NoFallbackResult,
                                        !.storeTouched = FALSE]
          /\ UNCHANGED <<input, searchResult, validResults, refinedQueries,
                         returned, outcome>>
     ELSE Caught([history EXCEPT !.embedFailed = TRUE])
  /\ UNCHANGED <<embeddings, rest>>

\* execute continues, without an await, after a ...WithFallback call returned
\* sr: lines 105-110 for the original query, lines 127-135 for a refined one,
\* and the return of lines 163-174 when the call ends here.
AfterFallback(sr) ==
  LET valid == FilterValid(sr.results)
  IN  /\ UNCHANGED <<stage, input, queryEmbedded>>
      /\ IF stage = "original"
         THEN /\ searchResult' = sr
              /\ validResults' = valid
              /\ UNCHANGED refinedQueries
              /\ IF Len(valid) = 0
                 THEN /\ pc' = "refine"
                      /\ UNCHANGED <<returned, outcome>>
                 ELSE Return(valid, sr)
         ELSE IF Len(valid) > 0
              THEN /\ validResults' = valid
                   /\ searchResult' = sr
                   /\ UNCHANGED refinedQueries
                   /\ Return(valid, sr)
              ELSE /\ refinedQueries' = Tail(refinedQueries)
                   /\ UNCHANGED <<searchResult, validResults>>
                   /\ IF Len(refinedQueries) = 1
                      THEN Return(validResults, searchResult)
                      ELSE /\ pc' = "refinedEmbed"
                           /\ UNCHANGED <<returned, outcome>>

Observed(threshold, results) ==
  [history EXCEPT !.searches = Append(@, [threshold |-> threshold, results |-> results])]

\* The first search of ...WithFallback, with the initial threshold.  The
\* query passes the embedding to the <=> operator unchecked; the database
\* rejects an operand of other dimensions than the column's and the query
\* throws like any failed query.
InitialSearch(ok) ==
  /\ pc = "initial"
  /\ UNCHANGED <<embeddings, rest, fallbackIndex>>
  /\ IF ~ok
     THEN Caught([history EXCEPT !.dbFailed = TRUE])
     ELSE IF Dimensions(queryEmbedded) # vectorDimensions
     THEN Caught(history)
     ELSE \E results \in ScopedSearch(queryEmbedded, input.resourceId,
                                      DEFAULT_LIMIT, SIMILARITY_THRESHOLD) :
            LET sr == [results |-> results, threshold |-> SIMILARITY_THRESHOLD,
                       attempt |-> 1]
                h == Observed(SIMILARITY_THRESHOLD, results)
            IN  IF Len(results) > 0
                THEN /\ AfterFallback(sr)
                     /\ history' = [h EXCEPT !.fallbackReturn = sr]
                ELSE /\ pc' = "fallback"
                     /\ history' = h
                     /\ UNCHANGED <<stage, input, queryEmbedded, searchResult,
                                    validResults, refinedQueries, returned, outcome>>

\* One iteration of the loop over FALLBACK_THRESHOLDS (i = fallbackIndex).
FallbackSearch(ok) ==
  /\ pc = "fallback"
  /\ UNCHANGED <<embeddings, rest>>
  /\ IF ~ok
     THEN /\ Caught([history EXCEPT !.dbFailed = TRUE])
          /\ UNCHANGED fallbackIndex
     ELSE LET fallbackThreshold == FALLBACK_THRESHOLDS[fallbackIndex + 1]
          IN  \E results \in ScopedSearch(queryEmbedded, input.resourceId,
                                          DEFAULT_LIMIT, fallbackThreshold) :
                LET sr == [results |-> results, threshold |-> fallbackThreshold,
                           attempt |-> fallbackIndex + 2]
                    h == Observed(fallbackThreshold, results)
                IN  IF Len(results) > 0
                    THEN /\ AfterFallback(sr)
                         /\ history' = [h EXCEPT !.fallbackReturn = sr]
                         /\ fallbackIndex' = 0
                    ELSE IF fallbackIndex + 1 < Len(FALLBACK_THRESHOLDS)
                    THEN /\ fallbackIndex' = fallbackIndex + 1
                         /\ history' = h
                         /\ UNCHANGED <<pc, stage, input, queryEmbedded, searchResult,
                                        validResults, refinedQueries, returned, outcome>>
                    ELSE /\ AfterFallback(ExhaustedFallback)
                         /\ history' = [h EXCEPT !.fallbackReturn = ExhaustedFallback]
                         /\ fallbackIndex' = 0

\* const refinedQueries = await refineQuery(input.userQuery): the auxiliary
\* model answers with `lines`, or fails and refineQuery returns [].
RefineQuery(ok, lines) ==
  /\ pc = "refine"
  /\ LET refined == IF ok THEN SplitTrimFilter(lines, input.userQuery) ELSE <<>>
     IN  /\ refinedQueries' = refined
         /\ history' = [history EXCEPT !.refineCalled = TRUE, !.refineFailed = ~ok]
         /\ IF Len(refined) = 0
            THEN /\ Return(validResults, searchResult)
                 /\ UNCHANGED stage
            ELSE /\ pc' = "refinedEmbed"
                 /\ stage' = "refined"
                 /\ UNCHANGED <<returned, outcome>>
  /\ UNCHANGED <<embeddings, rest, input, queryEmbedded, fallbackIndex,
                 searchResult, validResults>>

\* const refinedEmbedding = await generateEmbedding(refinedQuery)
GenerateRefinedEmbedding(ok) ==
  /\ pc = "refinedEmbed"
  /\ IF ok
     THEN /\ queryEmbedded' = EmbeddingOf(Head(refinedQueries),
                                           queryEmbedded = NomicVector)
          /\ fallbackIndex' = 0
          /\ pc' = "initial"
          /\ history' = [history EXCEPT !.searches = <<>>,
                                        !.fallbackReturn = NoFallbackResult,
                                        !.storeTouched = FALSE,
                                        !.refinedEmbedded = @ + 1]
          /\ UNCHANGED <<stage, input, searchResult, validResults, refinedQueries,
                         returned, outcome>>
     ELSE /\ Caught([history EXCEPT !.embedFailed = TRUE])
          /\ UNCHANGED fallbackIndex
  /\ UNCHANGED <<embeddings, rest>>

\* The batches saved: the empty one and one per row.
Batches == {<<>>} \cup { <<row>> : row \in NewEmbeddings }

\* The texts the auxiliary model may return, split into lines.
ModelAnswers == SeqsUpTo(ModelLines, MaxLines) \cup {ManyLines}

NoInput == [userQuery |-> NoText, resourceId |-> NoResource]
NoSearch == [v |-> 0, limit |-> 0, threshold |-> 0, results |-> <<>>]

\* The agent has the tool's result; the next call may begin.
Finish ==
  /\ pc = "done"
  /\ pc' = "idle"
  /\ stage' = "original"
  /\ input' = NoInput
  /\ queryEmbedded' = 0
  /\ fallbackIndex' = 0
  /\ searchResult' = NoFallbackResult
  /\ validResults' = <<>>
  /\ refinedQueries' = <<>>
  /\ returned' = <<>>
  /\ outcome' = "none"
  /\ history' = NoHistory
  /\ UNCHANGED <<embeddings, rest>>


\* ------------------------------------------------------------------------
\* Direct calls of findRelevantContent (specification SearchSpec)
\* ------------------------------------------------------------------------
Thresholds == {SIMILARITY_THRESHOLD} \cup { FALLBACK_THRESHOLDS[k] : k \in DOMAIN FALLBACK_THRESHOLDS }

\* findRelevantContent(userQueryEmbedded, { limit, threshold }) is called and
\* its result observed (only the last direct call is remembered).
FindRelevantContentCall(v, limit, threshold) ==
  /\ \E results \in findRelevantContent(v, limit, threshold) :
       lastSearch' = [v |-> v, limit |-> limit, threshold |-> threshold,
                      results |-> results]
  /\ folderSearch' = [v |-> 0, folder |-> "f1", results |-> <<>>]
  /\ UNCHANGED <<embeddings, toolVars, utilVars, chatVars, resourceVars, turn>>



\* ------------------------------------------------------------------------
\* POST /api/chat (app/(chat)/api/chat/route.ts)
\* ------------------------------------------------------------------------
MaxRequests == 2

Requests == 1 .. MaxRequests
NoUser == "nobody"
Users == {"u1", "u2"}
ChatIds == {"c1", "c2"}

\* entitlementsByUserType.regular.maxMessagesPerDay
maxMessagesPerDay == 100

\* stopWhen: stepCountIs(5)
stepCount == 5

NoRequest ==
  [pc |-> "idle", chatId |-> "c1", user |-> NoUser, response |-> "none",
   agent |-> "none", steps |-> 0, usageEvents |-> 0, client |-> "connected"]

\* getMessageCountByUserId: the user messages of the user's chats (every
\* message of the model is younger than 24 hours)
getMessageCountByUserId(user) ==
  Cardinality({ m \in messages : m.role = "user" /\ chats[m.chatId] = user })

\* A handler that returns an error response has ended.
Respond(r, response) ==
  requests' = [requests EXCEPT ![r].pc = "done", ![r].response = response]

\* The request arrives: body parsed, session checked (lines 163-169), user
\* messages of the last 24 hours counted and compared (lines 189-197).
Receive(r, chatId, session) ==
  /\ requests[r].pc = "idle"
  /\ IF session = NoUser
     THEN requests' = [requests EXCEPT ![r].pc = "done", ![r].chatId = chatId,
                                       ![r].response = "unauthorized:chat"]
     ELSE IF getMessageCountByUserId(session) > maxMessagesPerDay
     THEN requests' = [requests EXCEPT ![r].pc = "done", ![r].chatId = chatId,
                                       ![r].user = session,
                                       ![r].response = "rate_limit:chat"]
     ELSE requests' = [requests EXCEPT ![r].pc = "getChat", ![r].chatId = chatId,
                                       ![r].user = session]
  /\ UNCHANGED <<chats, messages, streams, embeddings, toolVars, lastSearch, others>>

\* const chat = await getChatById({ id }) and the ownership check
GetChat(r) ==
  /\ requests[r].pc = "getChat"
  /\ LET owner == chats[requests[r].chatId]
     IN  IF owner = NoUser
         THEN requests' = [requests EXCEPT ![r].pc = "saveChat"]
         ELSE IF owner # requests[r].user
         THEN Respond(r, "forbidden:chat")
         ELSE requests' = [requests EXCEPT ![r].pc = "saveMessages"]
  /\ UNCHANGED <<chats, messages, streams, embeddings, toolVars, lastSearch, others>>

\* await saveChat(...): the insert fails when the database fails or when a
\* row with this id exists by now (primary key); the ChatSDKError is turned
\* into the response by the catch of lines 385-388.
SaveChat(r, ok) ==
  /\ requests[r].pc = "saveChat"
  /\ IF ok /\ chats[requests[r].chatId] = NoUser
     THEN /\ chats' = [chats EXCEPT ![requests[r].chatId] = requests[r].user]
          /\ requests' = [requests EXCEPT ![r].pc = "saveMessages"]
     ELSE /\ Respond(r, "bad_request:database")
          /\ UNCHANGED chats
  /\ UNCHANGED <<messages, streams, embeddings, toolVars, lastSearch, others>>

\* await saveMessages({ messages: [the user message] })
SaveUserMessage(r, ok) ==
  /\ requests[r].pc = "saveMessages"
  /\ IF ok
     THEN /\ messages' = messages \cup
                           {[id |-> r, chatId |-> requests[r].chatId, role |-> "user"]}
          /\ requests' = [requests EXCEPT ![r].pc = "createStreamId"]
     ELSE /\ Respond(r, "bad_request:database")
          /\ UNCHANGED messages
  /\ UNCHANGED <<chats, streams, embeddings, toolVars, lastSearch, others>>

AfterCreateStreamId_swallowed(ok) == "execute"

\* Where the handler goes after await createStreamId(...): a failure is
\* thrown as ChatSDKError and ends the handler in its catch.
AfterCreateStreamId(ok) == IF ok THEN "execute" ELSE "done"

\* const streamId = generateUUID(); await createStreamId({ streamId, chatId }),
\* then the stream is created and returned as the response (lines 287-384).
CreateStreamId(r, ok) ==
  /\ requests[r].pc = "createStreamId"
  /\ streams' = IF ok
                THEN streams \cup {[id |-> r, chatId |-> requests[r].chatId]}
                ELSE streams
  /\ requests' = [requests EXCEPT
                    ![r].pc = AfterCreateStreamId(ok),
                    ![r].response = IF AfterCreateStreamId(ok) = "execute"
                                    THEN "stream" ELSE "bad_request:database"]
  /\ UNCHANGED <<chats, messages, embeddings, toolVars, lastSearch, others>>

\* execute of createUIMessageStream: createAgent(...) and agent.stream(...);
\* result.consumeStream() then drives the generation whoever reads.
StartAgent(r) ==
  /\ requests[r].pc = "execute"
  /\ requests' = [requests EXCEPT ![r].pc = "model", ![r].agent = "running"]
  /\ UNCHANGED <<chats, messages, streams, embeddings, toolVars, lastSearch, others>>

\* onFinish of the agent (lines 295-326): every path writes one data-usage
\* part to the stream.
OnFinish(req) == [req EXCEPT !.usageEvents = @ + 1]

\* The agent's loop has ended in `state`.  The ToolLoopAgent calls onFinish
\* when the loop finished, and after a failed model call only if an earlier
\* step had completed; nothing else in the handler writes the usage part.
\* The step counter is the loop's own and is gone with it.
AgentEnds(req, state) ==
  LET ended == [req EXCEPT !.agent = state, !.pc = "streamFinish", !.steps = 0]
  IN  IF state = "finished" \/ req.steps > 0 THEN OnFinish(ended) ELSE ended

\* One call of the language model: it asks for a tool, answers, or fails.
\* No abort signal is passed to the agent, so the call is made whether or
\* not the client still reads.
ModelCall(r, out) ==
  /\ requests[r].pc = "model"
  /\ LET req == requests[r]
     IN  requests' =
           [requests EXCEPT ![r] =
              CASE out = "tool" -> [req EXCEPT !.pc = "tool"]
                [] out = "answer" -> AgentEnds([req EXCEPT !.steps = @ + 1], "finished")
                [] out = "fail" -> AgentEnds(req, "failed")]
  /\ UNCHANGED <<chats, messages, streams, embeddings, toolVars, lastSearch, others>>

\* The tool's result is observed and the step ends; stepCountIs stops the
\* loop after stepCount steps.
ToolResult(r) ==
  /\ requests[r].pc = "tool"
  /\ LET req == [requests[r] EXCEPT !.steps = @ + 1]
     IN  requests' =
           [requests EXCEPT ![r] =
              IF req.steps >= stepCount
              THEN AgentEnds(req, "finished")
              ELSE [req EXCEPT !.pc = "model"]]
  /\ UNCHANGED <<chats, messages, streams, embeddings, toolVars, lastSearch, others>>

\* onFinish of createUIMessageStream (lines 343-365): the response messages
\* are saved.
StreamFinish(r, ok) ==
  /\ requests[r].pc = "streamFinish"
  /\ messages' = IF ok
                 THEN messages \cup
                        {[id |-> r, chatId |-> requests[r].chatId, role |-> "assistant"]}
                 ELSE messages
  /\ requests' = [requests EXCEPT ![r].pc = "done"]
  /\ UNCHANGED <<chats, streams, embeddings, toolVars, lastSearch, others>>

\* The client stops or goes away while the response streams.  The handler
\* never reads request.signal: nothing on the server changes.
Disconnect(r) ==
  /\ requests[r].response = "stream"
  /\ requests[r].pc # "done"
  /\ requests[r].client = "connected"
  /\ requests' = [requests EXCEPT
                    ![r].client = IF requests[r].agent = "running"
                                  THEN "gone during generation" ELSE "gone"]
  /\ UNCHANGED <<chats, messages, streams, embeddings, toolVars, lastSearch, others>>

\* ------------------------------------------------------------------------
\* DELETE /api/resources and deleteEmbeddingsByFolder
\* ------------------------------------------------------------------------
\* The request, and what the model remembers of it: the rows its
\* deleteEmbeddingsByResourceId removed (chunks) and the rows the foreign
\* key removed with the resource's row (cascaded).
NoDeleteRequest ==
  [pc |-> "idle", id |-> NoResource, response |-> "none", chunks |-> 0, cascaded |-> 0]

\* The statements after the handler's awaits leave these alone.
deleteFrame == <<toolVars, utilVars, lastSearch, chatVars, folderDelete, folderSearch, turn>>

RowsOf(table, resourceId) ==
  Cardinality({ i \in DOMAIN table : table[i].resourceId = resourceId })

\* A handler that returns a response has ended.
DeleteResponds(response) ==
  deleteRequest' = [deleteRequest EXCEPT !.pc = "done", !.response = response]

\* The request arrives: session and id parameter are checked (lines 38-50).
DeleteReceive(resourceId, session) ==
  /\ deleteRequest.pc = "idle"
  /\ deleteRequest' =
       IF session = NoUser
       THEN [NoDeleteRequest EXCEPT !.pc = "done", !.response = "401"]
       ELSE IF resourceId = NoResource
       THEN [NoDeleteRequest EXCEPT !.pc = "done", !.response = "400"]
       ELSE [NoDeleteRequest EXCEPT !.pc = "find", !.id = resourceId]
  /\ UNCHANGED <<embeddings, resources, files, deleteFrame>>

\* const resource = await findResourceById(resourceId)
FindResource(ok) ==
  /\ deleteRequest.pc = "find"
  /\ IF ~ok THEN DeleteResponds("500")
     ELSE IF resources[deleteRequest.id] = NoRow THEN DeleteResponds("404")
     ELSE deleteRequest' = [deleteRequest EXCEPT !.pc = "deleteFile"]
  /\ UNCHANGED <<embeddings, resources, files, deleteFrame>>

\* await deleteFile(resource.pathname): deleteFileLocally catches its error,
\* so the handler goes on whether or not the file was removed.
DeleteFile(ok) ==
  /\ deleteRequest.pc = "deleteFile"
  /\ files' = IF ok THEN files \ {deleteRequest.id} ELSE files
  /\ deleteRequest' = [deleteRequest EXCEPT !.pc = "deleteEmbeddings"]
  /\ UNCHANGED <<embeddings, resources, deleteFrame>>

\* await deleteEmbeddingsByResourceId(resource.id)
DeleteEmbeddings(ok) ==
  /\ deleteRequest.pc = "deleteEmbeddings"
  /\ IF ok
     THEN /\ embeddings' = SelectSeq(embeddings,
                                     LAMBDA row : row.resourceId # deleteRequest.id)
          /\ deleteRequest' = [deleteRequest EXCEPT
                                 !.pc = "deleteResource",
                                 !.chunks = RowsOf(embeddings, deleteRequest.id)]
     ELSE /\ DeleteResponds("500")
          /\ UNCHANGED embeddings
  /\ UNCHANGED <<resources, files, deleteFrame>>

OnDeleteCascade_noAction(table, resourceId) == table

\* ON DELETE cascade of embeddings_resource_id_resources_id_fk: the rows
\* that reference a deleted resource go with it.
OnDeleteCascade(table, resourceId) ==
  SelectSeq(table, LAMBDA row : row.resourceId # resourceId)

\* await deleteResourceById(resource.id), then the success response
DeleteResourceRow(ok) ==
  /\ deleteRequest.pc = "deleteResource"
  /\ IF ok
     THEN /\ resources' = [resources EXCEPT ![deleteRequest.id] = NoRow]
          /\ embeddings' = OnDeleteCascade(embeddings, deleteRequest.id)
          /\ deleteRequest' = [deleteRequest EXCEPT
                                 !.pc = "done",
                                 !.response = "success",
                                 !.cascaded = RowsOf(embeddings, deleteRequest.id)]
     ELSE /\ DeleteResponds("500")
          /\ UNCHANGED <<embeddings, resources>>
  /\ UNCHANGED <<files, deleteFrame>>

\* deleteEmbeddingsByFolder(folder): what the model remembers of the call is
\* the number of rows its delete removed (deleted).
NoFolderDelete ==
  [pc |-> "idle", folder |-> "f1", resourceIds |-> {}, deleted |-> 0, result |-> 0,
   outcome |-> "none"]

folderFrame == <<toolVars, utilVars, lastSearch, chatVars, resources, files, deleteRequest,
                 folderSearch, turn>>

\* const resourcesInFolder = await db.select(...).where(eq(resources.folder,
\* folder)), and the return of 0 when there is none
SelectResourcesInFolder(folder, ok) ==
  /\ folderDelete.pc = "idle"
  /\ LET resourceIds == { rid \in ResourceIds : resources[rid] = folder }
         call == [NoFolderDelete EXCEPT !.folder = folder]
     IN  folderDelete' =
           IF ~ok THEN [call EXCEPT !.pc = "done", !.outcome = "threw"]
           ELSE IF resourceIds = {}
           THEN [call EXCEPT !.pc = "done", !.outcome = "returned", !.result = 0]
           ELSE [call EXCEPT !.pc = "delete", !.resourceIds = resourceIds]
  /\ UNCHANGED <<embeddings, folderFrame>>

\* await db.delete(embeddings).where(inArray(embeddings.resourceId,
\* resourceIds)); return resourceIds.length
DeleteEmbeddingsInFolder(ok) ==
  /\ folderDelete.pc = "delete"
  /\ IF ok
     THEN /\ embeddings' = SelectSeq(embeddings,
                                     LAMBDA row : row.resourceId \notin folderDelete.resourceIds)
          /\ folderDelete' = [folderDelete EXCEPT
                                !.pc = "done",
                                !.outcome = "returned",
                                !.deleted = Len(embeddings) - Len(embeddings'),
                                !.result = Cardinality(folderDelete.resourceIds)]
     ELSE /\ folderDelete' = [folderDelete EXCEPT !.pc = "done", !.outcome = "threw"]
          /\ UNCHANGED embeddings
  /\ UNCHANGED folderFrame

\* ------------------------------------------------------------------------
\* Folder-scoped search
\* ------------------------------------------------------------------------
NoFolderSearch == [v |-> 0, folder |-> "f1", results |-> <<>>]

\* findRelevantContentByFolder(userQueryEmbedded, folder) is called with the
\* default options and its result observed.  The module has no
\* ...ByFolderWithFallback function: this one search is the folder scope.
FindRelevantContentByFolderCall(v, folder) ==
  /\ \E results \in findRelevantContentByFolder(v, folder, DEFAULT_LIMIT,
                                               SIMILARITY_THRESHOLD) :
       folderSearch' = [v |-> v, folder |-> folder, results |-> results]
  /\ lastSearch' = NoSearch
  /\ UNCHANGED <<embeddings, toolVars, utilVars, chatVars, resourceVars, turn>>

\* ------------------------------------------------------------------------
\* The agent loop (ToolLoopAgent)
\* ------------------------------------------------------------------------
\* One turn of a ToolLoopAgent built by createAgent (part_006) or by
\* createRagAgent (lib/ai/agents.ts).  A step is one response of the model
\* and, when it holds tool calls, the execution of all of them: the loop
\* starts every call of the response and waits for all their results.
MaxToolCalls == 2

Factories == {"createAgent", "createRagAgent"}

\* tools: { getInformationFromEmbeddings, getAllResources }
ToolNames == {"getInformationFromEmbeddings", "getAllResources"}

\* stopWhen: stepCountIs(10) of createAgent
createAgentStepCount == 10

StepLimit(factory) == IF factory = "createAgent" THEN createAgentStepCount ELSE stepCount

stopWhen_offByOne(factory, steps) == steps > StepLimit(factory)

\* stopWhen: stepCountIs(n), asked after a step with tool calls
stopWhen(factory, steps) == steps >= StepLimit(factory)

NoTurn ==
  [pc |-> "idle", factory |-> "none", steps |-> 0, calls |-> <<>>, pending |-> {},
   searched |-> FALSE, finishReason |-> "none"]

\* agent.stream({ messages }): the turn begins with a call of the model.  The
\* user's message is a question about the content of the documents.
AgentStream(factory) ==
  /\ turn.pc = "idle"
  /\ turn' = [NoTurn EXCEPT !.pc = "model", !.factory = factory]
  /\ UNCHANGED <<embeddings, toolVars, utilVars, lastSearch, chatVars, resourceVars, folderSearch>>

\* The model's response has no tool call: a final answer ends the turn
\* (finish reason "stop"); a failed call ends it with an error part.
ModelResponds(out) ==
  /\ turn.pc = "model"
  /\ turn' = IF out = "answer"
             THEN [turn EXCEPT !.pc = "done", !.steps = @ + 1, !.finishReason = "stop"]
             ELSE [turn EXCEPT !.pc = "done", !.finishReason = "error"]
  /\ UNCHANGED <<embeddings, toolVars, utilVars, lastSearch, chatVars, resourceVars, folderSearch>>

\* The model's response holds the tool calls `calls`: every one of them is
\* started.  Nothing in the agents' settings limits a response to one call
\* or names the tool to call first.
ModelCallsTools(calls) ==
  /\ turn.pc = "model"
  /\ turn' = [turn EXCEPT
                !.pc = "tools",
                !.calls = calls,
                !.pending = DOMAIN calls,
                !.searched = @ \/ \E k \in DOMAIN calls :
                                     calls[k] = "getInformationFromEmbeddings"]
  /\ UNCHANGED <<embeddings, toolVars, utilVars, lastSearch, chatVars, resourceVars, folderSearch>>

\* The result of call k is there.  With the last result the step ends: the
\* loop stops when stopWhen holds and calls the model again otherwise.
ToolResultObserved(k) ==
  /\ turn.pc = "tools"
  /\ k \in turn.pending
  /\ LET left == turn.pending \ {k}
         steps == turn.steps + 1
     IN  turn' = IF left # {}
                 THEN [turn EXCEPT !.pending = left]
                 ELSE IF stopWhen(turn.factory, steps)
                 THEN [turn EXCEPT !.pending = {}, !.calls = <<>>, !.steps = steps,
                                   !.pc = "done", !.finishReason = "tool-calls"]
                 ELSE [turn EXCEPT !.pending = {}, !.calls = <<>>, !.steps = steps,
                                   !.pc = "model"]
  /\ UNCHANGED <<embeddings, toolVars, utilVars, lastSearch, chatVars, resourceVars, folderSearch>>

\* The caller has read the stream to its finish part; the next turn may begin.
TurnOver ==
  /\ turn.pc = "done"
  /\ turn' = NoTurn
  /\ UNCHANGED <<embeddings, toolVars, utilVars, lastSearch, chatVars, resourceVars, folderSearch>>

\* ------------------------------------------------------------------------
\* generateEmbedding (lib/ai/embeddings/generate.ts)
\* ------------------------------------------------------------------------
\* what the calls of this and the following sections leave alone
mainVars == <<embeddings, toolVars, lastSearch, chatVars, resourceVars,
              folderSearch, turn>>

\* JavaScript values as far as the checks of generateEmbedding tell them
\* apart: undefined, an array (with its items) and a value that is neither.
Undefined == [kind |-> "undefined", items |-> <<>>]
NotAnArray == [kind |-> "string", items |-> <<>>]
Array(items) == [kind |-> "array", items |-> items]
isArray(x) == x.kind = "array"
Thrown == [kind |-> "error", items |-> <<>>]

\* the vectors a provider may send
ProviderVectors == {Array(<<>>), Array(<<1>>), Array(<<1, 2>>)}

\* the body of an /api/embed response
OllamaData ==
  [embeddings : {Undefined, Array(<<>>), Array(<<NotAnArray>>)}
                  \cup {Array(<<v>>) : v \in ProviderVectors},
   embedding : {Undefined, NotAnArray} \cup ProviderVectors]

\* fetch rejects (network failure), or resolves with a status and a body
OllamaResponses ==
  [rejected : {TRUE}, ok : {FALSE}, data : {[embeddings |-> Undefined, embedding |-> Undefined]}]
    \cup [rejected : {FALSE}, ok : BOOLEAN, data : OllamaData]

\* embed() rejects (network failure, provider error), or resolves with a
\* result whose embedding is what the provider sent
EmbedResults ==
  [rejected : BOOLEAN, embedding : {Undefined, NotAnArray} \cup ProviderVectors]

\* the Ollama path, lines 41-86
generateEmbeddingOllama(response) ==
  IF response.rejected \/ ~response.ok
  THEN Thrown
  ELSE LET data == response.data
           embedding ==
             IF isArray(data.embeddings) /\ Len(data.embeddings.items) > 0
             THEN data.embeddings.items[1]
             ELSE IF isArray(data.embedding)
             THEN data.embedding
             ELSE Thrown
       IN IF ~isArray(embedding) \/ Len(embedding.items) = 0
          THEN Thrown
          ELSE embedding

\* the OpenAI path, lines 89-115: !result.embedding is true of undefined
\* and false of every array, the empty one included
generateEmbeddingOpenAI(result) ==
  IF result.rejected THEN Thrown
  ELSE IF result.embedding = Undefined THEN Thrown
  ELSE IF ~isArray(result.embedding) THEN Thrown
  ELSE result.embedding

NoEmbedCall ==
  [pc |-> "idle", ollama |-> FALSE, value |-> NoText, received |-> Undefined,
   result |-> Undefined]

\* generateEmbedding(value) up to its await
CallGenerateEmbedding(value, ollama) ==
  /\ embedCall.pc \in {"idle", "done"}
  /\ embedCall' = [pc |-> "awaiting", ollama |-> ollama, value |-> value,
                   received |-> Undefined, result |-> Undefined]
  /\ UNCHANGED <<mainVars, listVars, chunking, streamVars, chatDelete, condensing>>

\* await fetch(...) and the checks after it
OllamaResponds(response) ==
  /\ embedCall.pc = "awaiting"
  /\ embedCall.ollama
  /\ embedCall' = [embedCall EXCEPT !.pc = "done",
                                    !.received = response,
                                    !.result = generateEmbeddingOllama(response)]
  /\ UNCHANGED <<mainVars, listVars, chunking, streamVars, chatDelete, condensing>>

\* await embed(...) and the checks after it
OpenAIResponds(result) ==
  /\ embedCall.pc = "awaiting"
  /\ ~embedCall.ollama
  /\ embedCall' = [embedCall EXCEPT !.pc = "done",
                                    !.received = result,
                                    !.result = generateEmbeddingOpenAI(result)]
  /\ UNCHANGED <<mainVars, listVars, chunking, streamVars, chatDelete, condensing>>

\* ------------------------------------------------------------------------
\* Listing resources (lib/db/resources/queries.ts, tools/get-all-resources.ts,
\* GET /api/resources)
\* ------------------------------------------------------------------------
\* The table has catalog.total rows, numbered 1 .. total in the order of
\* (folder, filename).  Neither column is unique: catalog.tied says that rows
\* 1 and 2 have the same folder and filename, and then ORDER BY may deliver
\* them in either order, query by query.
MaxResources == 102

Catalogs == {c \in [total : 0 .. MaxResources, tied : BOOLEAN] : c.tied => c.total >= 2}

Orders ==
  LET sorted == [i \in 1 .. catalog.total |-> i]
  IN {sorted} \cup
       (IF catalog.tied
        THEN {[i \in 1 .. catalog.total |-> IF i = 1 THEN 2 ELSE IF i = 2 THEN 1 ELSE i]}
        ELSE {})

\* getResourcesPaginated({page, limit}), search empty; order is the order in
\* which the database delivers the rows to this query.
getResourcesPaginated(order, page, limit) ==
  LET offset == (page - 1) * limit
      maxLimit == IF limit < 50 THEN limit ELSE 50
      last == IF offset + maxLimit < Len(order) THEN offset + maxLimit ELSE Len(order)
      total == Len(order)
      totalPages == (total + maxLimit - 1) \div maxLimit
  IN [resources |-> SubSeq(order, offset + 1, last),
      total |-> total,
      totalPages |-> totalPages,
      currentPage |-> page,
      hasNextPage |-> page < totalPages,
      hasPrevPage |-> page > 1]

\* the limit of the tool's input left out (zod's default is 100; 0 || 100
\* is 100 as well)
NoLimit == 0

NoListing ==
  [caller |-> "none", limit |-> NoLimit, seen |-> <<>>,
   last |-> getResourcesPaginated(<<>>, 1, 1), error |-> FALSE]

\* execute of getAllResources
GetAllResources(limit, ok) ==
  /\ listing.caller = "none"
  /\ \E order \in Orders :
       LET result == getResourcesPaginated(order, 1, IF limit = NoLimit THEN 100 ELSE limit)
       IN listing' =
            IF ok
            THEN [caller |-> "tool", limit |-> limit, seen |-> result.resources,
                  last |-> result, error |-> FALSE]
            ELSE [caller |-> "tool", limit |-> limit, seen |-> <<>>,
                  last |-> [result EXCEPT !.total = 0, !.resources = <<>>],
                  error |-> TRUE]
  /\ UNCHANGED <<mainVars, embedCall, catalog, chunking, streamVars, chatDelete, condensing>>

\* A caller that reads the table page by page with one limit: page 1.  GET
\* /api/resources caps the limit at 50 before the call; other callers pass
\* theirs as it is.
FirstPage(limit, viaRoute) ==
  /\ listing.caller = "none"
  /\ \E order \in Orders :
       LET capped == IF viaRoute /\ limit > 50 THEN 50 ELSE limit
           result == getResourcesPaginated(order, 1, capped)
       IN listing' = [caller |-> "pager", limit |-> capped,
                      seen |-> result.resources, last |-> result, error |-> FALSE]
  /\ UNCHANGED <<mainVars, embedCall, catalog, chunking, streamVars, chatDelete, condensing>>

\* ... and the page after the last one read, up to page totalPages
NextPage ==
  /\ listing.caller = "pager"
  /\ listing.last.currentPage < listing.last.totalPages
  /\ \E order \in Orders :
       LET result == getResourcesPaginated(order, listing.last.currentPage + 1,
                                           listing.limit)
       IN listing' = [listing EXCEPT !.seen = @ \o result.resources,
                                     !.last = result]
  /\ UNCHANGED <<mainVars, embedCall, catalog, chunking, streamVars, chatDelete, condensing>>

\* ------------------------------------------------------------------------
\* The chunker of the Dagster pipeline (README: chunk_size, chunk_overlap)
\* ------------------------------------------------------------------------
MaxTextLen == 4
MaxChunkSize == 3

\* the texts of up to MaxTextLen characters a and b
ChunkTexts == UNION {[1 .. n -> {"a", "b"}] : n \in 0 .. MaxTextLen}

\* ceil((len(text) - chunk_overlap) / (chunk_size - chunk_overlap)), minimum 1
ChunkCount_floor(len, chunk_size, chunk_overlap) ==
  LET n == (len - chunk_overlap) \div (chunk_size - chunk_overlap)
  IN IF n < 1 THEN 1 ELSE n

ChunkCount(len, chunk_size, chunk_overlap) ==
  LET step == chunk_size - chunk_overlap
      n == (len - chunk_overlap + step - 1) \div step
  IN IF n < 1 THEN 1 ELSE n

\* window i (from 1): chunk_size characters from where window i-1 started
\* plus chunk_size - chunk_overlap; the last one may be shorter
Window(text, i, chunk_size, chunk_overlap) ==
  LET start == (i - 1) * (chunk_size - chunk_overlap)
      end == IF start + chunk_size < Len(text) THEN start + chunk_size ELSE Len(text)
  IN SubSeq(text, start + 1, end)

NoChunking ==
  [pc |-> "idle", text |-> NoText, chunk_size |-> 1, chunk_overlap |-> 0,
   chunks |-> <<>>]

\* The configuration is validated (0 <= chunk_overlap < chunk_size) before
\* the first window.
StartChunking(text, chunk_size, chunk_overlap) ==
  /\ chunking.pc \in {"idle", "done", "rejected"}
  /\ chunking' = [pc |-> IF chunk_overlap < chunk_size THEN "chunking" ELSE "rejected",
                  text |-> text, chunk_size |-> chunk_size,
                  chunk_overlap |-> chunk_overlap, chunks |-> <<>>]
  /\ UNCHANGED <<mainVars, embedCall, listVars, streamVars, chatDelete, condensing>>

\* the next window of the sequence, or its end
EmitChunk ==
  /\ chunking.pc = "chunking"
  /\ LET i == Len(chunking.chunks) + 1
     IN IF i <= ChunkCount(Len(chunking.text), chunking.chunk_size, chunking.chunk_overlap)
        THEN chunking' = [chunking EXCEPT !.chunks =
                            Append(@, Window(chunking.text, i, chunking.chunk_size,
                                             chunking.chunk_overlap))]
        ELSE chunking' = [chunking EXCEPT !.pc = "done"]
  /\ UNCHANGED <<mainVars, embedCall, listVars, streamVars, chatDelete, condensing>>

\* ------------------------------------------------------------------------
\* DELETE /api/chat (route.ts) and deleteChatById (lib/db/chat/queries.ts)
\* ------------------------------------------------------------------------
NoChatDelete ==
  [pc |-> "idle", id |-> "", user |-> NoUser, response |-> "none", deleted |-> 0]

\* lines 401-412: the id of the query string and the session
DeleteChatReceive(id, session) ==
  /\ chatDelete.pc = "idle"
  /\ chatDelete' =
       IF id = ""
       THEN [NoChatDelete EXCEPT !.pc = "done", !.response = "bad_request:api"]
       ELSE IF session = NoUser
       THEN [NoChatDelete EXCEPT !.pc = "done", !.id = id,
                                 !.response = "unauthorized:chat"]
       ELSE [NoChatDelete EXCEPT !.pc = "getChat", !.id = id, !.user = session]
  /\ UNCHANGED <<mainVars, embedCall, listVars, chunking, streamVars, condensing>>

\* lines 414-418 with the ownership check applied to existing chats only
DeleteGetChat_missingPasses(ok) ==
  /\ chatDelete.pc = "getChat"
  /\ chatDelete' =
       IF ~ok
       THEN [chatDelete EXCEPT !.pc = "done", !.response = "500"]
       ELSE IF chats[chatDelete.id] \notin {NoUser, chatDelete.user}
       THEN [chatDelete EXCEPT !.pc = "done", !.response = "forbidden:chat"]
       ELSE [chatDelete EXCEPT !.pc = "deleteChat"]
  /\ UNCHANGED <<mainVars, embedCall, listVars, chunking, streamVars, condensing>>

\* lines 414-418: chat?.userId !== session.user.id, which is true of a
\* missing chat as well
DeleteGetChat(ok) ==
  /\ chatDelete.pc = "getChat"
  /\ chatDelete' =
       IF ~ok
       THEN [chatDelete EXCEPT !.pc = "done", !.response = "500"]
       ELSE IF chats[chatDelete.id] # chatDelete.user
       THEN [chatDelete EXCEPT !.pc = "done", !.response = "forbidden:chat"]
       ELSE [chatDelete EXCEPT !.pc = "deleteChat"]
  /\ UNCHANGED <<mainVars, embedCall, listVars, chunking, streamVars, condensing>>

\* line 420 and deleteChatById: the votes, the messages, the streams and
\* then the chat are deleted one statement after the other; failAt names the
\* statement that fails, where the function throws and the handler, which
\* catches nothing, ends with a 500.  The chat's row cannot be deleted while
\* a message or stream refers to it.
DeleteChatById(failAt) ==
  /\ chatDelete.pc = "deleteChat"
  /\ LET id == chatDelete.id
         messagesLeft == IF failAt \in {"votes", "messages"}
                         THEN messages ELSE {m \in messages : m.chatId # id}
         streamsLeft == IF failAt \in {"votes", "messages", "streams"}
                        THEN streams ELSE {t \in streams : t.chatId # id}
         chatGone == failAt = "none" /\ chats[id] # NoUser
     IN /\ messages' = messagesLeft
        /\ streams' = streamsLeft
        /\ chats' = IF chatGone THEN [chats EXCEPT ![id] = NoUser] ELSE chats
        /\ chatDelete' = [chatDelete EXCEPT
                            !.pc = "done",
                            !.response = IF failAt = "none" THEN "200" ELSE "500",
                            !.deleted = Cardinality(messages \ messagesLeft)
                                          + Cardinality(streams \ streamsLeft)
                                          + (IF chatGone THEN 1 ELSE 0)]
  /\ UNCHANGED <<requests, embeddings, toolVars, lastSearch, resourceVars,
                 folderSearch, turn, embedCall, listVars, chunking, streamVars,
                 condensing>>

\* ------------------------------------------------------------------------
\* condenseMessages (lib/utils/context-manager.ts)
\* ------------------------------------------------------------------------
\* A message list is the sequence of the lengths of its messages' texts
\* (one text part each); a message is known by its position.  In a result
\* the summary message is 0.
MaxMessages == 3

\* condenseMessages(messages, maxTokens, keepRecentCount).  The text of the
\* summary and tokensSaved, which is computed from it, are left out.
condenseMessages(msgs, maxTokens, keepRecentCount) ==
  LET estimateTokens(length) == (length + 3) \div 4
      countMessageTokens(length) == estimateTokens(length) + 10
      total[i \in 0 .. Len(msgs)] ==
        IF i = 0 THEN 0 ELSE total[i - 1] + countMessageTokens(msgs[i])
      countTotalTokens == total[Len(msgs)]
      ids == [i \in 1 .. Len(msgs) |-> i]
      \* messages.slice(-keepRecentCount): slice(-0) is slice(0), the whole
      \* array, and so is slice(-k) for k beyond the length
      recentMessages ==
        IF keepRecentCount = 0 \/ keepRecentCount >= Len(msgs)
        THEN ids
        ELSE SubSeq(ids, Len(msgs) - keepRecentCount + 1, Len(msgs))
      \* messages.slice(0, -keepRecentCount): slice(0, -0) is slice(0, 0)
      oldMessages ==
        IF keepRecentCount = 0 \/ keepRecentCount >= Len(msgs)
        THEN <<>>
        ELSE SubSeq(ids, 1, Len(msgs) - keepRecentCount)
      condensed == <<0>> \o recentMessages
  IN IF 10 * countTotalTokens < 7 * maxTokens
     THEN [condensed |-> ids, wasCondensed |-> FALSE,
           originalCount |-> Len(msgs), condensedCount |-> Len(msgs),
           summarized |-> 0]
     ELSE [condensed |-> condensed, wasCondensed |-> TRUE,
           originalCount |-> Len(msgs), condensedCount |-> Len(condensed),
           summarized |-> Len(oldMessages)]

NoCondensing ==
  [messages |-> <<>>, maxTokens |-> 100000, keepRecentCount |-> 10,
   result |-> condenseMessages(<<>>, 100000, 10)]

\* a call and its result
CondenseMessages(msgs, maxTokens, keepRecentCount) ==
  /\ condensing' = [messages |-> msgs, maxTokens |-> maxTokens,
                    keepRecentCount |-> keepRecentCount,
                    result |-> condenseMessages(msgs, maxTokens, keepRecentCount)]
  /\ UNCHANGED <<mainVars, embedCall, listVars, chunking, streamVars, chatDelete>>

\* ------------------------------------------------------------------------
\* getStreamContext (route.ts)
\* ------------------------------------------------------------------------
\* The requests of one server process that call getStreamContext.  The
\* function is synchronous: a call that has begun runs to its return before
\* another begins.
MaxCallers == 4
Callers == 1 .. MaxCallers

\* null, and the contexts createResumableStreamContext returns: the n-th
\* one created by a caller is [by |-> caller, n |-> n]
NoContext == [by |-> 0, n |-> 0]

NoStreamCall == [pc |-> "idle", called |-> FALSE, returned |-> NoContext, created |-> 0]

\* lines 86-99: the fast path, the flag, and the flag set before creation
GetStreamContext(c) ==
  /\ \A d \in Callers : streamCalls[d].pc = "idle"
  /\ IF globalStreamContext # NoContext
     THEN /\ streamCalls' = [streamCalls EXCEPT ![c].called = TRUE,
                                                ![c].returned = globalStreamContext]
          /\ UNCHANGED isInitializing
     ELSE IF isInitializing
     THEN /\ streamCalls' = [streamCalls EXCEPT ![c].called = TRUE,
                                                ![c].returned = NoContext]
          /\ UNCHANGED isInitializing
     ELSE /\ isInitializing' = TRUE
          /\ streamCalls' = [streamCalls EXCEPT ![c].pc = "creating"]
  /\ UNCHANGED <<mainVars, embedCall, listVars, chunking, globalStreamContext,
                 chatDelete, condensing>>

\* lines 101-118 without the finally block: the flag stays set when the
\* creation throws
CreateResumableStreamContext_noFinally(c, ok) ==
  /\ streamCalls[c].pc = "creating"
  /\ IF ok
     THEN LET context == [by |-> c, n |-> streamCalls[c].created + 1]
          IN /\ globalStreamContext' = context
             /\ streamCalls' = [streamCalls EXCEPT ![c].pc = "idle",
                                                   ![c].called = TRUE,
                                                   ![c].returned = context,
                                                   ![c].created = @ + 1]
             /\ isInitializing' = FALSE
     ELSE /\ streamCalls' = [streamCalls EXCEPT ![c].pc = "idle",
                                                ![c].called = TRUE,
                                                ![c].returned = NoContext]
          /\ UNCHANGED <<globalStreamContext, isInitializing>>
  /\ UNCHANGED <<mainVars, embedCall, listVars, chunking, chatDelete, condensing>>

\* lines 101-118: createResumableStreamContext returns a context or throws
\* (no REDIS_URL, for one); the catch returns null; finally clears the flag
CreateResumableStreamContext(c, ok) ==
  /\ streamCalls[c].pc = "creating"
  /\ IF ok
     THEN LET context == [by |-> c, n |-> streamCalls[c].created + 1]
          IN /\ globalStreamContext' = context
             /\ streamCalls' = [streamCalls EXCEPT ![c].pc = "idle",
                                                   ![c].called = TRUE,
                                                   ![c].returned = context,
                                                   ![c].created = @ + 1]
     ELSE /\ streamCalls' = [streamCalls EXCEPT ![c].pc = "idle",
                                                ![c].called = TRUE,
                                                ![c].returned = NoContext]
          /\ UNCHANGED globalStreamContext
  /\ isInitializing' = FALSE
  /\ UNCHANGED <<mainVars, embedCall, listVars, chunking, chatDelete, condensing>>

\* ------------------------------------------------------------------------
\* Specifications
\* ------------------------------------------------------------------------

\* No call of generateEmbedding, the listings, the chunker, getStreamContext,
\* DELETE /api/chat or condenseMessages has been made.
IdleInit ==
  /\ embedCall = NoEmbedCall
  /\ listing = NoListing
  /\ chunking = NoChunking
  /\ globalStreamContext = NoContext
  /\ isInitializing = FALSE
  /\ streamCalls = [c \in Callers |-> NoStreamCall]
  /\ chatDelete = NoChatDelete
  /\ condensing = NoCondensing

ChatInit ==
  /\ chats = [c \in ChatIds |-> IF c = "c1" THEN "u1" ELSE NoUser]
  /\ messages = {}
  /\ streams = {}
  /\ requests = [r \in Requests |-> NoRequest]

\* Two resources in two folders, their files stored; nothing else running.
OthersInit ==
  /\ resources = [rid \in ResourceIds |-> IF rid = "r1" THEN "f1" ELSE "f2"]
  /\ files = ResourceIds
  /\ deleteRequest = NoDeleteRequest
  /\ folderDelete = NoFolderDelete
  /\ folderSearch = NoFolderSearch
  /\ turn = NoTurn
  /\ IdleInit
  /\ catalog = [total |-> 0, tied |-> FALSE]

Init ==
  /\ embeddings = <<>>
  /\ pc = "idle"
  /\ stage = "original"
  /\ input = NoInput
  /\ queryEmbedded = 0
  /\ fallbackIndex = 0
  /\ searchResult = NoFallbackResult
  /\ validResults = <<>>
  /\ refinedQueries = <<>>
  /\ returned = <<>>
  /\ outcome = "none"
  /\ history = NoHistory
  /\ lastSearch = NoSearch
  /\ ChatInit
  /\ OthersInit

Next ==
  \/ \E values \in Batches : saveEmbeddings(values)
  \/ \E resourceId \in ResourceIds : deleteEmbeddingsByResourceId(resourceId)
  \/ \E userQuery \in UserQueries, resourceId \in ResourceIds \cup {NoResource} :
       Execute(userQuery, resourceId)
  \/ \E ok, ollama \in BOOLEAN : GenerateEmbedding(ok, ollama)
  \/ \E ok \in BOOLEAN : InitialSearch(ok)
  \/ \E ok \in BOOLEAN : FallbackSearch(ok)
  \/ \E ok \in BOOLEAN, lines \in ModelAnswers : RefineQuery(ok, lines)
  \/ \E ok \in BOOLEAN : GenerateRefinedEmbedding(ok)
  \/ Finish

Spec == Init /\ [][Next]_vars

SearchInit ==
  /\ embeddings \in SeqsUpTo(NewEmbeddings, MaxTable)
  /\ pc = "idle"
  /\ stage = "original"
  /\ input = NoInput
  /\ queryEmbedded = 0
  /\ fallbackIndex = 0
  /\ searchResult = NoFallbackResult
  /\ validResults = <<>>
  /\ refinedQueries = <<>>
  /\ returned = <<>>
  /\ outcome = "none"
  /\ history = NoHistory
  /\ lastSearch = NoSearch
  /\ ChatInit
  /\ resources \in ResourceTables
  /\ files = ResourceIds
  /\ deleteRequest = NoDeleteRequest
  /\ folderDelete = NoFolderDelete
  /\ folderSearch = NoFolderSearch
  /\ turn = NoTurn
  /\ IdleInit
  /\ catalog = [total |-> 0, tied |-> FALSE]

SearchNext ==
  \/ \E v \in QueryVectors, limit \in 1 .. MaxLimit, threshold \in Thresholds :
       FindRelevantContentCall(v, limit, threshold)
  \/ \E v \in QueryVectors, folder \in Folders :
       FindRelevantContentByFolderCall(v, folder)

SearchSpec == SearchInit /\ [][SearchNext]_vars

ChatNext ==
  \/ \E r \in Requests, chatId \in ChatIds, session \in Users \cup {NoUser} :
       Receive(r, chatId, session)
  \/ \E r \in Requests : GetChat(r)
  \/ \E r \in Requests, ok \in BOOLEAN : SaveChat(r, ok)
  \/ \E r \in Requests, ok \in BOOLEAN : SaveUserMessage(r, ok)
  \/ \E r \in Requests, ok \in BOOLEAN : CreateStreamId(r, ok)
  \/ \E r \in Requests : StartAgent(r)
  \/ \E r \in Requests, out \in {"tool", "answer", "fail"} : ModelCall(r, out)
  \/ \E r \in Requests : ToolResult(r)
  \/ \E r \in Requests, ok \in BOOLEAN : StreamFinish(r, ok)
  \/ \E r \in Requests : Disconnect(r)

ChatSpec == Init /\ [][ChatNext]_vars

\* The server's side of POST /api/chat alone.  A client's disconnect changes
\* nothing that the handler reads (it never reads request.signal), so the
\* server behaves under this specification as under ChatSpec.
ServerNext ==
  \/ \E r \in Requests, chatId \in ChatIds, session \in Users \cup {NoUser} :
       Receive(r, chatId, session)
  \/ \E r \in Requests : GetChat(r)
  \/ \E r \in Requests, ok \in BOOLEAN : SaveChat(r, ok)
  \/ \E r \in Requests, ok \in BOOLEAN : SaveUserMessage(r, ok)
  \/ \E r \in Requests, ok \in BOOLEAN : CreateStreamId(r, ok)
  \/ \E r \in Requests : StartAgent(r)
  \/ \E r \in Requests, out \in {"tool", "answer", "fail"} : ModelCall(r, out)
  \/ \E r \in Requests : ToolResult(r)
  \/ \E r \in Requests, ok \in BOOLEAN : StreamFinish(r, ok)

ServerSpec == Init /\ [][ServerNext]_vars

DeleteInit ==
  /\ embeddings \in SeqsUpTo(NewEmbeddings, MaxRows)
  /\ pc = "idle"
  /\ stage = "original"
  /\ input = NoInput
  /\ queryEmbedded = 0
  /\ fallbackIndex = 0
  /\ searchResult = NoFallbackResult
  /\ validResults = <<>>
  /\ refinedQueries = <<>>
  /\ returned = <<>>
  /\ outcome = "none"
  /\ history = NoHistory
  /\ lastSearch = NoSearch
  /\ ChatInit
  /\ resources \in ResourceTables
  /\ files = ResourceIds
  /\ deleteRequest = NoDeleteRequest
  /\ folderDelete = NoFolderDelete
  /\ folderSearch = NoFolderSearch
  /\ turn = NoTurn
  /\ IdleInit
  /\ catalog = [total |-> 0, tied |-> FALSE]

\* The delete request, with inserts and searches of other requests between
\* its awaits.
DeleteNext ==
  \/ \E resourceId \in ResourceIds \cup {NoResource}, session \in {"u1", NoUser} :
       DeleteReceive(resourceId, session)
  \/ \E ok \in BOOLEAN : FindResource(ok)
  \/ \E ok \in BOOLEAN : DeleteFile(ok)
  \/ \E ok \in BOOLEAN : DeleteEmbeddings(ok)
  \/ \E ok \in BOOLEAN : DeleteResourceRow(ok)
  \/ \E values \in Batches : saveEmbeddings(values)
  \/ \E v \in QueryVectors :
       FindRelevantContentCall(v, DEFAULT_LIMIT, SIMILARITY_THRESHOLD)

DeleteSpec == DeleteInit /\ [][DeleteNext]_vars

\* A deleteEmbeddingsByFolder call, with inserts of other requests between
\* its awaits.
FolderDeleteNext ==
  \/ \E folder \in Folders, ok \in BOOLEAN : SelectResourcesInFolder(folder, ok)
  \/ \E ok \in BOOLEAN : DeleteEmbeddingsInFolder(ok)
  \/ \E values \in Batches : saveEmbeddings(values)

FolderDeleteSpec == DeleteInit /\ [][FolderDeleteNext]_vars

AgentNext ==
  \/ \E factory \in Factories : AgentStream(factory)
  \/ \E out \in {"answer", "fail"} : ModelResponds(out)
  \/ \E calls \in SeqsUpTo(ToolNames, MaxToolCalls) \ {<<>>} : ModelCallsTools(calls)
  \/ \E k \in 1 .. MaxToolCalls : ToolResultObserved(k)
  \/ TurnOver

\* Every call of the model and every tool call settles (the tools catch
\* their errors, a failed model call rejects), and the event loop then runs
\* the continuation.
AgentSpec == Init /\ [][AgentNext]_vars /\ WF_vars(AgentNext)

\* ------------------------------------------------------------------------
\* Properties
\* ------------------------------------------------------------------------

C2_NoRefineWhileThresholdSuffices ==
  (pc = "refine" /\ ~history.storeTouched) =>
    ~ \E threshold \in {50, 30, 15} :
        \E results \in ScopedSearch(EmbedText(input.userQuery), input.resourceId,
                                    DEFAULT_LIMIT, threshold) :
          \E k \in DOMAIN results : Len(Trim(results[k].content)) > 0

\* C3: when every stored vector in scope has similarity <= 0.15 to the query
\* embedding, the ...WithFallback call (scoped or not) returns, without
\* throwing, an empty list with attempt = ladder length + 1.
C3_ExhaustedIsEmptyResult ==
  LET inScope == { i \in DOMAIN embeddings :
                     input.resourceId = NoResource
                       \/ embeddings[i].resourceId = input.resourceId }
  IN  ( /\ Len(history.searches) > 0
        /\ pc \notin {"initial", "fallback"}
        /\ ~history.dbFailed
        /\ ~history.storeTouched
        /\ \A i \in inScope :
             100 - DistanceTable[embeddings[i].embedding][queryEmbedded] <= 15 )
      => /\ history.fallbackReturn # NoFallbackResult
         /\ history.fallbackReturn.results = <<>>
         /\ history.fallbackReturn.attempt = Len(FALLBACK_THRESHOLDS) + 1

C3_Witness ==
  /\ history.fallbackReturn.results = <<>>
  /\ history.fallbackReturn.attempt = 3
  /\ Len(history.searches) = 3
  /\ ~history.storeTouched
  /\ input.resourceId # NoResource
  /\ \E i \in DOMAIN embeddings :
       /\ embeddings[i].resourceId = input.resourceId
       /\ similarity(embeddings[i], queryEmbedded) = 15

C5_OneGenerationPerChat ==
  \A r1, r2 \in Requests :
    (r1 # r2 /\ requests[r1].agent = "running" /\ requests[r2].agent = "running")
      => requests[r1].chatId # requests[r2].chatId

\* C6: for every request whose generation was started, exactly one usage
\* event is written to the stream, after the agent reached its terminal
\* state, also when the language-model call failed part-way.
C6_UsageExactlyOnce ==
  \A r \in Requests :
    /\ requests[r].usageEvents > 0 => requests[r].agent \in {"finished", "failed"}
    /\ requests[r].agent \in {"finished", "failed"} => requests[r].usageEvents = 1

\* C7: whenever a generation starts, the stream id of the request has been
\* persisted by createStreamId; a request whose createStreamId failed starts
\* no generation.
C7_StreamIdBeforeGeneration ==
  [][\A r \in Requests :
       (requests[r].agent = "none" /\ requests'[r].agent # "none")
         => [id |-> r, chatId |-> requests[r].chatId] \in streams]_vars

C7_Witness ==
  \E r1, r2 \in Requests :
    /\ requests[r1].agent = "running"
    /\ [id |-> r1, chatId |-> requests[r1].chatId] \in streams
    /\ requests[r2].pc = "done"
    /\ requests[r2].response = "bad_request:database"
    /\ [id |-> r2, chatId |-> requests[r2].chatId, role |-> "user"] \in messages
    /\ requests[r2].agent = "none"
    /\ \A s \in streams : s.id # r2

\* C8: when the client disconnects or stops during a generation, the
\* generation is not run to completion and saved as a finished answer.
C8_DisconnectCancels ==
  \A r \in Requests :
    requests[r].client = "gone during generation"
      => ~ ( /\ requests[r].agent = "finished"
             /\ [id |-> r, chatId |-> requests[r].chatId, role |-> "assistant"]
                  \in messages )

\* C9: execute never propagates an exception: when embedding the query, the
\* reformulation call, or embedding a reformulated query fails, the tool
\* returns an empty list.
C9_ToolNeverThrows ==
  /\ outcome # "threw"
  /\ pc = "done" =>
       /\ outcome = "returned"
       /\ (history.embedFailed \/ history.refineFailed) => returned = <<>>

C9_Witness ==
  /\ pc = "done"
  /\ stage = "refined"
  /\ history.embedFailed
  /\ returned = <<>>
  /\ outcome = "returned"

\* C10: a search whose database query failed is never reported to the agent
\* as an ordinary empty result set.
C10_StoreFailureNotSwallowed ==
  ~ (pc = "done" /\ history.dbFailed /\ outcome = "returned" /\ returned = <<>>)

\* C11: no result returned by getInformationFromEmbeddings has empty or
\* whitespace-only content, whether it was found with the original query or
\* with a reformulated one.
C11_NoBlankContentReturned ==
  \A k \in DOMAIN returned :
    /\ returned[k].content # NoText
    /\ \E c \in DOMAIN returned[k].content : returned[k].content[c] # " "

C11_Witness ==
  /\ pc = "done"
  /\ stage = "refined"
  /\ Len(returned) > 0
  /\ Len(history.fallbackReturn.results) > Len(returned)
  /\ \E k \in DOMAIN history.fallbackReturn.results :
       history.fallbackReturn.results[k].content = Blank

\* C12: in one call of getInformationFromEmbeddings at most 3 reformulated
\* queries are embedded and searched, whatever text the auxiliary language
\* model returns.
C12_AtMostThreeReformulations ==
  history.refinedEmbedded <= 3

C14_TiesInInsertionOrder ==
  lastSearch # NoSearch =>
    LET v == lastSearch.v
        sim(i) == 100 - DistanceTable[embeddings[i].embedding][v]
        matching == { i \in DOMAIN embeddings : sim(i) > lastSearch.threshold }
        n == Cardinality(matching)
        m == IF lastSearch.limit < n THEN lastSearch.limit ELSE n
    IN  \E p \in [1 .. n -> matching] :
          /\ \A i, j \in 1 .. n : i # j => p[i] # p[j]
          /\ \A i \in 1 .. n - 1 :
               \/ sim(p[i]) > sim(p[i + 1])
               \/ sim(p[i]) = sim(p[i + 1]) /\ p[i] < p[i + 1]
          /\ Len(lastSearch.results) = m
          /\ \A k \in 1 .. m :
               lastSearch.results[k].content = embeddings[p[k]].content

\* The lists a search of `table` may return: rows above the threshold in
\* descending similarity, at most limit of them.
SearchIn(table, v, limit, threshold) ==
  LET sim(i) == 100 - DistanceTable[table[i].embedding][v]
      matching == { i \in DOMAIN table : sim(i) > threshold }
      n == Cardinality(matching)
      m == IF limit < n THEN limit ELSE n
      orders == { p \in [1 .. n -> matching] :
                    /\ \A i, j \in 1 .. n : i # j => p[i] # p[j]
                    /\ \A i \in 1 .. n - 1 : sim(p[i]) >= sim(p[i + 1]) }
  IN  { [k \in 1 .. m |-> [content |-> table[p[k]].content,
                            similarity |-> sim(p[k]),
                            resourceName |-> Filename(table[p[k]].resourceId)]] :
          p \in orders }

\* What the unscoped ladder (0.5, 0.3, 0.15) may return on `table`.
LadderIn(table, v, limit) ==
  LET rung(t, a) == { [results |-> x, threshold |-> t, attempt |-> a] :
                        x \in SearchIn(table, v, limit, t) }
  IN  IF SearchIn(table, v, limit, 50) # {<<>>} THEN rung(50, 1)
      ELSE IF SearchIn(table, v, limit, 30) # {<<>>} THEN rung(30, 2)
      ELSE IF SearchIn(table, v, limit, 15) # {<<>>} THEN rung(15, 3)
      ELSE {[results |-> <<>>, threshold |-> 15, attempt |-> 3]}

\* C15: a scoped search gives what the unscoped ladder search gives on the
\* store restricted to the scope, and returns rows of the scope only; here
\* for the collection tag (folder) scope.
C15_FolderScopeIsRestrictedLadder ==
  folderSearch # NoFolderSearch =>
    LET inFolder(row) == /\ row.resourceId # NoResource
                         /\ resources[row.resourceId] = folderSearch.folder
        restricted == SelectSeq(embeddings, inFolder)
    IN  /\ \A k \in DOMAIN folderSearch.results :
             \E i \in DOMAIN restricted :
               restricted[i].content = folderSearch.results[k].content
        /\ \E l \in LadderIn(restricted, folderSearch.v, DEFAULT_LIMIT) :
             l.results = folderSearch.results

C17_ToolCallsSequential ==
  Cardinality(turn.pending) <= 1

\* C18: for a content question the turn calls the search tool
\* (getInformationFromEmbeddings) before its final answer; a first response
\* that is a direct answer is not delivered as the final answer.
C18_SearchBeforeAnswer ==
  (turn.pc = "done" /\ turn.finishReason = "stop") => turn.searched

\* C19: after DELETE /api/resources?id=R has returned success, no embedding
\* row references R and the resource row is gone, so every search run from
\* then on returns no row of R.
C19_DeletedResourceUnsearchable ==
  deleteRequest.response = "success" =>
    /\ resources[deleteRequest.id] = NoRow
    /\ \A i \in DOMAIN embeddings : embeddings[i].resourceId # deleteRequest.id
    /\ \A v \in QueryVectors, threshold \in {50, 30, 15} :
         \A results \in findRelevantContent(v, DEFAULT_LIMIT, threshold) :
           \A k \in DOMAIN results : results[k].resourceName # deleteRequest.id

C19_Witness ==
  /\ deleteRequest.response = "success"
  /\ deleteRequest.chunks > 0
  /\ deleteRequest.cascaded > 0
  /\ Len(embeddings) > 0
  /\ lastSearch # NoSearch
  /\ \E k \in DOMAIN lastSearch.results :
       lastSearch.results[k].resourceName = deleteRequest.id

\* C20: deleteEmbeddingsByFolder(folder) returns the number of embedding
\* rows it deleted (0 when the folder has no resources).
C20_FolderDeleteCount ==
  (folderDelete.pc = "done" /\ folderDelete.outcome = "returned") =>
    folderDelete.result = folderDelete.deleted

EmbedNext ==
  \/ \E value \in {NoText, QueryQ, QueryR}, ollama \in BOOLEAN :
       CallGenerateEmbedding(value, ollama)
  \/ \E response \in OllamaResponses : OllamaResponds(response)
  \/ \E result \in EmbedResults : OpenAIResponds(result)

EmbedSpec == Init /\ [][EmbedNext]_vars

\* every table of up to MaxResources rows, and nothing else running
ListInit ==
  /\ embeddings = <<>>
  /\ pc = "idle"
  /\ stage = "original"
  /\ input = NoInput
  /\ queryEmbedded = 0
  /\ fallbackIndex = 0
  /\ searchResult = NoFallbackResult
  /\ validResults = <<>>
  /\ refinedQueries = <<>>
  /\ returned = <<>>
  /\ outcome = "none"
  /\ history = NoHistory
  /\ lastSearch = NoSearch
  /\ ChatInit
  /\ resources = [rid \in ResourceIds |-> IF rid = "r1" THEN "f1" ELSE "f2"]
  /\ files = ResourceIds
  /\ deleteRequest = NoDeleteRequest
  /\ folderDelete = NoFolderDelete
  /\ folderSearch = NoFolderSearch
  /\ turn = NoTurn
  /\ IdleInit
  /\ catalog \in Catalogs

ListNext ==
  \/ \E limit \in {NoLimit, 2, 150}, ok \in BOOLEAN : GetAllResources(limit, ok)
  \/ \E limit \in {1, 2, 50, 51, 100}, viaRoute \in BOOLEAN :
       FirstPage(limit, viaRoute)
  \/ NextPage

ListSpec == ListInit /\ [][ListNext]_vars

ChunkNext ==
  \/ \E text \in ChunkTexts, chunk_size \in 1 .. MaxChunkSize,
        chunk_overlap \in 0 .. MaxChunkSize :
       StartChunking(text, chunk_size, chunk_overlap)
  \/ EmitChunk

ChunkSpec == Init /\ [][ChunkNext]_vars

StreamContextNext ==
  \/ \E c \in Callers : GetStreamContext(c)
  \/ \E c \in Callers, ok \in BOOLEAN : CreateResumableStreamContext(c, ok)

StreamContextSpec == Init /\ [][StreamContextNext]_vars

\* POST /api/chat requests up to the start of their generation and DELETE
\* /api/chat requests, interleaved at their awaits.
ChatDeleteNext ==
  \/ \E r \in Requests, chatId \in ChatIds, session \in Users \cup {NoUser} :
       Receive(r, chatId, session)
  \/ \E r \in Requests : GetChat(r)
  \/ \E r \in Requests, ok \in BOOLEAN : SaveChat(r, ok)
  \/ \E r \in Requests, ok \in BOOLEAN : SaveUserMessage(r, ok)
  \/ \E r \in Requests, ok \in BOOLEAN : CreateStreamId(r, ok)
  \/ \E r \in Requests : StartAgent(r)
  \/ \E id \in ChatIds \cup {""}, session \in Users \cup {NoUser} :
       DeleteChatReceive(id, session)
  \/ \E ok \in BOOLEAN : DeleteGetChat(ok)
  \/ \E failAt \in {"none", "votes", "messages", "streams", "chat"} :
       DeleteChatById(failAt)

ChatDeleteSpec == Init /\ [][ChatDeleteNext]_vars

\* POST /api/chat when u1 has sent all messages of the day but one in the
\* chat c1.
RateInit ==
  /\ embeddings = <<>>
  /\ pc = "idle"
  /\ stage = "original"
  /\ input = NoInput
  /\ queryEmbedded = 0
  /\ fallbackIndex = 0
  /\ searchResult = NoFallbackResult
  /\ validResults = <<>>
  /\ refinedQueries = <<>>
  /\ returned = <<>>
  /\ outcome = "none"
  /\ history = NoHistory
  /\ lastSearch = NoSearch
  /\ chats = [c \in ChatIds |-> IF c = "c1" THEN "u1" ELSE NoUser]
  /\ messages = {[id |-> MaxRequests + i, chatId |-> "c1", role |-> "user"] :
                   i \in 1 .. maxMessagesPerDay - 1}
  /\ streams = {}
  /\ requests = [r \in Requests |-> NoRequest]
  /\ OthersInit

RateSpec == RateInit /\ [][ChatNext]_vars

\* texts of 0 and of 37 characters: 10 and 20 tokens a message
CondenseNext ==
  \E msgs \in SeqsUpTo({0, 37}, MaxMessages), maxTokens \in {0, 50, 100000},
     keepRecentCount \in 0 .. MaxMessages + 1 :
    CondenseMessages(msgs, maxTokens, keepRecentCount)

CondenseSpec == Init /\ [][CondenseNext]_vars

\* C21: a query embedding whose length differs from the dimensions of the
\* stored embeddings is detected before the similarity search and fails as
\* a configuration error; it is never answered with an ordinary empty list.
C21_DimensionMismatchRejected ==
  (pc = "done" /\ queryEmbedded # 0 /\ Dimensions(queryEmbedded) # vectorDimensions)
    => ~(outcome = "returned" /\ returned = <<>>)

\* C22: generateEmbedding never returns an empty vector; whatever the
\* provider answers, on either path, a finished call has thrown or returned
\* a vector with at least one component.
C22_NeverEmptyVector ==
  embedCall.pc = "done"
    => \/ embedCall.result = Thrown
       \/ isArray(embedCall.result) /\ Len(embedCall.result.items) > 0

\* C23: called without a limit, getAllResources returns min(total, 100)
\* resources.
C23_DefaultCapIs100 ==
  (listing.caller = "tool" /\ ~listing.error /\ listing.limit = NoLimit)
    => Len(listing.seen) = IF catalog.total < 100 THEN catalog.total ELSE 100

\* C29: for a fixed limit and an unchanged table, pages 1 .. totalPages
\* contain every resource exactly once between them, and hasNextPage is
\* true exactly when a later page is non-empty.
C29_PagesPartitionTheTable ==
  listing.caller = "pager"
    => /\ listing.last.hasNextPage
            <=> \E p \in listing.last.currentPage + 1 .. listing.last.currentPage + catalog.total,
                   order \in Orders :
                  getResourcesPaginated(order, p, listing.limit).resources # <<>>
       /\ listing.last.currentPage >= listing.last.totalPages
            => /\ Len(listing.seen) = catalog.total
               /\ \A row \in 1 .. catalog.total :
                    \E i \in 1 .. Len(listing.seen) : listing.seen[i] = row

\* C24: the chunks of a text, the first whole and every later one without
\* its first chunk_overlap characters, concatenated in order are the text.
C24_ChunkingRoundTrip ==
  chunking.pc = "done"
    => LET n == Len(chunking.chunks)
           joined[i \in 0 .. n] ==
             IF i = 0 THEN <<>>
             ELSE IF i = 1 THEN chunking.chunks[1]
             ELSE joined[i - 1] \o SubSeq(chunking.chunks[i], chunking.chunk_overlap + 1,
                                          Len(chunking.chunks[i]))
       IN /\ n >= 1
          /\ joined[n] = chunking.text

\* a text of several windows with an overlap and a shorter last window has
\* been chunked
C24_Witness ==
  /\ chunking.pc = "done"
  /\ Len(chunking.chunks) >= 2
  /\ chunking.chunk_overlap >= 1
  /\ Len(chunking.chunks[Len(chunking.chunks)]) < chunking.chunk_size

\* C25: createResumableStreamContext has succeeded at most once, every
\* context a call has returned is that one, and isInitializing is false
\* whenever no call is executing.
C25_OneStreamContext ==
  /\ \A c, d \in Callers :
       streamCalls[c].created + (IF d # c THEN streamCalls[d].created ELSE 0) <= 1
  /\ \A c \in Callers :
       streamCalls[c].returned # NoContext
         => streamCalls[c].returned = globalStreamContext
  /\ (\A c \in Callers : streamCalls[c].pc = "idle") => ~isInitializing

\* a creation has failed, a later one succeeded and a third call got the
\* context on the fast path
C25_Witness ==
  \E c, d, e \in Callers :
    /\ c # d /\ d # e /\ c # e
    /\ streamCalls[c].called /\ streamCalls[c].returned = NoContext
    /\ streamCalls[d].created = 1
    /\ streamCalls[e].created = 0 /\ streamCalls[e].returned = globalStreamContext
    /\ globalStreamContext # NoContext
    /\ \A k \in Callers : streamCalls[k].pc = "idle"

\* C26: a request by a user who does not own the chat changes nothing.  A
\* POST that finds the chat owned by another user answers forbidden and has
\* saved no message, created no stream id and started no generation; a
\* DELETE that finds the chat owned by another user, or no chat, answers
\* forbidden and has deleted no row.
C26_NonOwnerChangesNothing ==
  /\ [](/\ \A r \in Requests :
            requests[r].response = "forbidden:chat"
              => /\ \A m \in messages : m.id # r
                 /\ \A t \in streams : t.id # r
                 /\ requests[r].agent = "none"
        /\ chatDelete.response = "forbidden:chat" => chatDelete.deleted = 0)
  /\ [][/\ \A r \in Requests :
            (/\ requests[r].pc = "getChat"
             /\ requests'[r] # requests[r]
             /\ chats[requests[r].chatId] \notin {NoUser, requests[r].user})
              => /\ requests'[r].response = "forbidden:chat"
                 /\ UNCHANGED <<chats, messages, streams>>
        /\ (/\ chatDelete.pc = "getChat"
            /\ chatDelete'.pc # "getChat"
            /\ chatDelete'.response # "500"
            /\ chats[chatDelete.id] # chatDelete.user)
             => /\ chatDelete'.response = "forbidden:chat"
                /\ UNCHANGED <<chats, messages, streams>>]_vars

\* both have happened: a POST of u2 for u1's chat and a DELETE of u2 for it
\* were refused while the chat has a message and a stream id
C26_Witness ==
  \E r \in Requests :
    /\ requests[r].response = "forbidden:chat"
    /\ chatDelete.response = "forbidden:chat"
    /\ chatDelete.id = requests[r].chatId
    /\ chats[chatDelete.id] \notin {NoUser, chatDelete.user}
    /\ \E m \in messages : m.chatId = chatDelete.id
    /\ \E t \in streams : t.chatId = chatDelete.id

\* C27: the number of a user's saved user messages of the last 24 hours
\* never exceeds maxMessagesPerDay.
C27_DailyLimit ==
  \A user \in Users : getMessageCountByUserId(user) <= maxMessagesPerDay

\* C28: a DELETE /api/resources that ends with an error response has
\* deleted nothing: the resource's row, its file and its chunks are as
\* they were.
C28_DeleteAllOrNothing ==
  (deleteRequest.pc = "done" /\ deleteRequest.response = "500")
    => /\ deleteRequest.chunks = 0
       /\ deleteRequest.id \in files
       /\ resources[deleteRequest.id] # NoRow

\* C30: condenseMessages never returns more messages than it was given,
\* and when it has condensed, the result is the summary message followed
\* by exactly the last keepRecentCount messages in their order.
C30_CondenseNeverGrows ==
  LET r == condensing.result
      n == Len(condensing.messages)
      k == condensing.keepRecentCount
  IN /\ r.condensedCount <= r.originalCount
     /\ r.wasCondensed
          => /\ Len(r.condensed) = k + 1
             /\ r.condensed[1] = 0
             /\ \A i \in 1 .. k : r.condensed[i + 1] = n - k + i

====
